---- MODULE Spec2Model ----
(***************************************************************************)
(* Model of the tea-grade backend (src/backend/main.py): the POST /analyze *)
(* handler analyze_tea with its helper optimize_image, and GET /health.    *)
(*                                                                         *)
(* A request is followed through the statements of analyze_tea: size       *)
(* check, Image.open, format check, optimize_image, mock inference.  The   *)
(* Pillow calls are modelled by what they do to the attributes the handler *)
(* looks at: Image.open only identifies the file from its header (pixel    *)
(* data is read lazily, by load()); Image.thumbnail computes the new size  *)
(* with its round_aspect rule and loads the pixel data; split/paste load   *)
(* the pixel data and blend with the alpha band as mask.                   *)
(*                                                                         *)
(* Strings of the JSON body are sequences of Unicode code points.          *)
(***************************************************************************)
EXTENDS Integers, Sequences, FiniteSets, TLC

VARIABLES pc, upload, image, trace, response, health

vars == <<pc, upload, image, trace, response, health>>

----------------------------------------------------------------------------
(* Bounds of the explored inputs *)

\* sizes MAX_FILE_SIZE - SizeSlack .. MAX_FILE_SIZE + SizeSlack are explored
SizeSlack == 1
\* pixel dimensions 1 .. MaxSmallDim are explored next to the large ones
MaxSmallDim == 3
\* pixel dimensions 200 k - 1 .. 200 k + 1 are explored for k \in 1 .. MaxDimSteps
MaxDimSteps == 6
\* random.uniform draws are explored with this many decimal digits
DrawDigits == 4
\* number of concurrent requests of SpecConc
NumConc == 2

----------------------------------------------------------------------------
(* Program constants *)

\* main.py:94  file_size > 5 * 1024 * 1024
MAX_FILE_SIZE == 5 * 1024 * 1024
\* main.py:61  max_size = (400, 400)
MAX_WIDTH == 400
MAX_HEIGHT == 400
\* a format check that lets GIF through
ALLOWED_FORMATS_Gif == {"JPEG", "PNG", "GIF"}
\* main.py:107  image.format not in ["JPEG", "PNG"]
ALLOWED_FORMATS == {"JPEG", "PNG"}
\* a mode test that forgets grayscale with alpha
ALPHA_MODES_NoLA == {"RGBA"}
\* main.py:71  image.mode in ("RGBA", "LA")
ALPHA_MODES == {"RGBA", "LA"}
\* a variety list with a romanized first name
TEA_VARIETIES_Romanized ==
    << <<89, 97, 98, 117, 107, 105, 116, 97>>,
       <<12373, 12360, 12415, 12393, 12426>>,
       <<12388, 12422, 12402, 12363, 12426>> >>
\* main.py:43  TEA_VARIETIES, as sequences of code points
TEA_VARIETIES ==
    << <<12420, 12406, 12365, 12383>>,
       <<12373, 12360, 12415, 12393, 12426>>,
       <<12388, 12422, 12402, 12363, 12426>> >>
\* main.py:44  TEA_GRADES, as sequences of code points
TEA_GRADES ==
    << <<20778, 33391>>, <<20013, 31561>>, <<20302, 32026>> >>
\* main.py:127  round(confidence, 3)
ROUND_DIGITS == 3
\* main.py:72  (255, 255, 255)
WHITE == 255

RECURSIVE Pow10(_)
Pow10(n) == IF n = 0 THEN 1 ELSE 10 * Pow10(n - 1)

\* one unit of a drawn confidence is 10^-DrawDigits
\* main.py:122  random.uniform(0.7, 1.0)
UNIFORM_LO == 7 * Pow10(DrawDigits - 1)
UNIFORM_HI == Pow10(DrawDigits)

Abs(n) == IF n < 0 THEN -n ELSE n
Max(a, b) == IF a >= b THEN a ELSE b

----------------------------------------------------------------------------
(* Values *)

Steps == <<"size", "decode", "format", "normalize", "classify">>

NoImage == [format |-> "NONE", mode |-> "NONE", width |-> 0, height |-> 0,
            value |-> 0, alpha |-> 0, intact |-> FALSE]

NoResponse == [status |-> 0, detail |-> "none", variety |-> <<>>,
               grade |-> <<>>, confidence |-> 0]

\* raise HTTPException(status_code=..., detail=...)
HTTPException(status, detail) ==
    [http |-> TRUE, status |-> status, detail |-> detail]

\* any other exception
OtherException == [http |-> FALSE, status |-> 0, detail |-> "exception"]

ErrorResponse(exc) ==
    [status |-> exc.status, detail |-> exc.detail, variety |-> <<>>,
     grade |-> <<>>, confidence |-> 0]

\* AnalyzeResponse(variety=..., grade=..., confidence=...) returned with 200
AnalyzeResponse(variety, grade, confidence) ==
    [status |-> 200, detail |-> "result", variety |-> variety,
     grade |-> grade, confidence |-> confidence]

\* HealthResponse(status="healthy", message=...)
HealthResponse == [status |-> 200, body |-> "healthy"]
NoHealth == [status |-> 0, body |-> "none"]

----------------------------------------------------------------------------
(* Pillow: Image.open *)

\* Image.open identifies the file from its header and fails on bytes no
\* plugin recognizes; the pixel data is not read yet.
CanOpen(u) == u.kind = "image"

Image_open(u) ==
    [format |-> u.format, mode |-> u.mode, width |-> u.width,
     height |-> u.height, value |-> u.value, alpha |-> u.alpha,
     intact |-> u.intact]

----------------------------------------------------------------------------
(* Pillow: Image.thumbnail *)

\* round_aspect(number, key) = max(min(floor(number), ceil(number), key=key), 1)
\* for number = num / den.  The keys are floating-point numbers: when the two
\* keys are equal as rationals the rounding errors decide which of floor and
\* ceil is the minimum (401 x 201 gives 400 x 201, 399 x 800 gives 200 x 400),
\* so a tie is broken either way, by up.
Floor(num, den) == num \div den
Ceil(num, den) == IF num % den = 0 THEN num \div den ELSE (num \div den) + 1

MinByKey(f, c, keyF, keyC, up) ==
    IF keyF < keyC THEN f
    ELSE IF keyF > keyC THEN c
    ELSE IF up THEN c ELSE f

\* x = round_aspect(y * aspect, key = |aspect - n / y|), aspect = w / h
RoundWidth(w, h, y, up) ==
    LET f == Floor(y * w, h)
        c == Ceil(y * w, h)
    IN  Max(MinByKey(f, c, Abs(w * y - f * h), Abs(w * y - c * h), up), 1)

\* y = round_aspect(x / aspect, key = 0 if n == 0 else |aspect - x / n|)
RoundHeight(w, h, x, up) ==
    LET f == Floor(x * h, w)
        c == Ceil(x * h, w)
    IN  IF f = 0 THEN 1
        ELSE Max(MinByKey(f, c, Abs(w * f - x * h) * c,
                          Abs(w * c - x * h) * f, up), 1)

\* the size Image.thumbnail((x, y)) gives an image of size (w, h)
ThumbnailSize(w, h, x, y, up) ==
    IF x >= w /\ y >= h THEN <<w, h>>
    ELSE IF x * h >= w * y THEN <<RoundWidth(w, h, y, up), y>>
    ELSE <<x, RoundHeight(w, h, x, up)>>

\* resize of an alpha mode goes through the premultiplied mode: the colour
\* of a fully transparent pixel is lost
ResizedValue(img) ==
    IF img.mode \in {"RGBA", "LA"} /\ img.alpha = 0 THEN 0 ELSE img.value

thumbnail(img, x, y, up) ==
    LET s == ThumbnailSize(img.width, img.height, x, y, up)
    IN  [img EXCEPT !.width = s[1], !.height = s[2],
                    !.value = ResizedValue(img)]

----------------------------------------------------------------------------
(* Pillow: Image.new, split, paste *)

\* DIV255(a) of Pillow's paste: (((a + 128) >> 8) + (a + 128)) >> 8
Div255(a) == (((a + 128) \div 256) + (a + 128)) \div 256

\* background.paste(image, mask=image.split()[-1]) on a white background
Composite(img) ==
    [img EXCEPT !.mode = "RGB",
                !.value = Div255(WHITE * (255 - img.alpha)
                                 + img.value * img.alpha),
                !.alpha = 255]

----------------------------------------------------------------------------
(* optimize_image *)

\* a size test with "and" for "or"
NeedsResize_And(img) == img.width > MAX_WIDTH /\ img.height > MAX_HEIGHT

NeedsResize(img) == img.width > MAX_WIDTH \/ img.height > MAX_HEIGHT

NeedsComposite(img) == img.mode \in ALPHA_MODES

\* thumbnail and split/paste read the pixel data, which fails on a file
\* whose data is cut off or corrupt; nothing else reads it
Raises(img) == (NeedsResize(img) \/ NeedsComposite(img)) /\ ~img.intact

optimize_image(img, up) ==
    LET resized == IF NeedsResize(img)
                   THEN thumbnail(img, MAX_WIDTH, MAX_HEIGHT, up) ELSE img
    IN  IF NeedsComposite(resized) THEN Composite(resized) ELSE resized

----------------------------------------------------------------------------
(* mock inference *)

\* round(x, ROUND_DIGITS) of a value given in units of 10^-DrawDigits,
\* ties to even
RoundUnit == Pow10(DrawDigits - ROUND_DIGITS)

\* a response that keeps the drawn value unrounded
Round3_None(raw) == raw

Round3(raw) ==
    LET q == raw \div RoundUnit
        r == raw % RoundUnit
    IN  IF 2 * r < RoundUnit THEN q * RoundUnit
        ELSE IF 2 * r > RoundUnit THEN (q + 1) * RoundUnit
        ELSE IF q % 2 = 0 THEN q * RoundUnit ELSE (q + 1) * RoundUnit

DrawOffsets ==
    {0, 1, (RoundUnit \div 2) - 1, RoundUnit \div 2, (RoundUnit \div 2) + 1,
     RoundUnit - 1, RoundUnit, RoundUnit + (RoundUnit \div 2)}

\* values random.uniform(0.7, 1.0) can return
UniformDraws ==
    {UNIFORM_LO + o : o \in DrawOffsets} \cup {UNIFORM_HI - o : o \in DrawOffsets}

----------------------------------------------------------------------------
(* analyze_tea *)

Requests == DOMAIN pc

\* an outer handler without the "except HTTPException: raise" clause
OuterHandler_Rewrap(exc) == HTTPException(500, "UnexpectedError")

\* except HTTPException: raise / except Exception: raise HTTPException(500)
OuterHandler(exc) ==
    IF exc.http THEN exc ELSE HTTPException(500, "UnexpectedError")

StepAfter(step) ==
    CASE step = "size" -> "decode"
      [] step = "decode" -> "format"
      [] step = "format" -> "normalize"
      [] step = "normalize" -> "classify"
      [] OTHER -> "done"

\* an error that is recorded without leaving the handler
Fail_NoStop(r, exc) ==
    /\ response' = [response EXCEPT ![r] = ErrorResponse(OuterHandler(exc))]
    /\ pc' = [pc EXCEPT ![r] = StepAfter(pc[r])]

\* raise: the exception leaves the handler through the outer except clauses
Fail(r, exc) ==
    /\ response' = [response EXCEPT ![r] = ErrorResponse(OuterHandler(exc))]
    /\ pc' = [pc EXCEPT ![r] = "done"]

Goto(r, step) ==
    /\ pc' = [pc EXCEPT ![r] = step]
    /\ UNCHANGED response

\* a limit that rejects a file of exactly the limit
TooLarge_Ge(file_size) == file_size >= MAX_FILE_SIZE

\* if file_size > 5 * 1024 * 1024
TooLarge(file_size) == file_size > MAX_FILE_SIZE

\* contents = await file.read(); the size check
SizeCheck(r) ==
    /\ pc[r] = "size"
    /\ trace' = [trace EXCEPT ![r] = Append(@, "size")]
    /\ IF upload[r].fault = "size"
       THEN Fail(r, OtherException)
       ELSE IF TooLarge(upload[r].size)
       THEN Fail(r, HTTPException(400, "PayloadTooLarge"))
       ELSE Goto(r, "decode")
    /\ UNCHANGED <<upload, image, health>>

\* a decode step that reads a buffer shared by the requests
Decode_Shared(r) ==
    LET first == CHOOSE q \in DOMAIN pc : \A o \in DOMAIN pc : q <= o
    IN  /\ pc[r] = "decode"
        /\ trace' = [trace EXCEPT ![r] = Append(@, "decode")]
        /\ IF upload[first].fault = "decode" \/ ~CanOpen(upload[first])
           THEN /\ Fail(r, HTTPException(400, "DecodeError"))
                /\ UNCHANGED image
           ELSE /\ image' = [image EXCEPT ![r] = Image_open(upload[first])]
                /\ Goto(r, "format")
        /\ UNCHANGED <<upload, health>>

\* image = Image.open(io.BytesIO(contents))
Decode(r) ==
    /\ pc[r] = "decode"
    /\ trace' = [trace EXCEPT ![r] = Append(@, "decode")]
    /\ IF upload[r].fault = "decode" \/ ~CanOpen(upload[r])
       THEN /\ Fail(r, HTTPException(400, "DecodeError"))
            /\ UNCHANGED image
       ELSE /\ image' = [image EXCEPT ![r] = Image_open(upload[r])]
            /\ Goto(r, "format")
    /\ UNCHANGED <<upload, health>>

\* if image.format not in ["JPEG", "PNG"]
FormatCheck(r) ==
    /\ pc[r] = "format"
    /\ trace' = [trace EXCEPT ![r] = Append(@, "format")]
    /\ IF image[r].format \notin ALLOWED_FORMATS
       THEN Fail(r, HTTPException(400, "UnsupportedFormat"))
       ELSE Goto(r, "normalize")
    /\ UNCHANGED <<upload, image, health>>

\* image = optimize_image(image)
Normalize(r) ==
    /\ pc[r] = "normalize"
    /\ trace' = [trace EXCEPT ![r] = Append(@, "normalize")]
    /\ IF upload[r].fault = "normalize" \/ Raises(image[r])
       THEN /\ Fail(r, HTTPException(500, "NormalizationError"))
            /\ UNCHANGED image
       ELSE /\ \E up \in BOOLEAN :
                  image' = [image EXCEPT ![r] = optimize_image(image[r], up)]
            /\ Goto(r, "classify")
    /\ UNCHANGED <<upload, health>>

\* random.choice, random.choice, random.uniform, AnalyzeResponse(...)
Classify(r) ==
    /\ pc[r] = "classify"
    /\ trace' = [trace EXCEPT ![r] = Append(@, "classify")]
    /\ IF upload[r].fault = "classify"
       THEN Fail(r, HTTPException(500, "ClassificationError"))
       ELSE \E v \in 1..Len(TEA_VARIETIES), g \in 1..Len(TEA_GRADES),
               confidence \in UniformDraws :
               /\ response' = [response EXCEPT ![r] =
                      AnalyzeResponse(TEA_VARIETIES[v], TEA_GRADES[g],
                                      Round3(confidence))]
               /\ pc' = [pc EXCEPT ![r] = "done"]
    /\ UNCHANGED <<upload, image, health>>

\* health_check
HealthCheck ==
    /\ health' = HealthResponse
    /\ UNCHANGED <<pc, upload, image, trace, response>>

----------------------------------------------------------------------------
(* Requests *)

Sizes ==
    {1024, 2 * MAX_FILE_SIZE}
    \cup (MAX_FILE_SIZE - SizeSlack .. MAX_FILE_SIZE + SizeSlack)

Faults == {"none", "size", "decode", "normalize", "classify"}

Filenames == {"leaf.jpg", "leaf.txt"}

\* the formats and the colour modes the decoders report for them
FormatModes ==
    {<<"JPEG", "RGB">>, <<"JPEG", "L">>, <<"JPEG", "CMYK">>,
     <<"PNG", "RGB">>, <<"PNG", "RGBA">>, <<"PNG", "L">>, <<"PNG", "LA">>,
     <<"PNG", "P">>, <<"GIF", "P">>}

Alphas(mode) == IF mode \in {"RGBA", "LA"} THEN {0, 128, 255} ELSE {255}

Garbage ==
    [kind |-> "garbage", format |-> "NONE", mode |-> "NONE", width |-> 0,
     height |-> 0, value |-> 0, alpha |-> 0, intact |-> FALSE]

ImageFiles(dims, fms) ==
    {[kind |-> "image", format |-> fm[1], mode |-> fm[2], width |-> d[1],
      height |-> d[2], value |-> v, alpha |-> a, intact |-> i] :
        fm \in fms, d \in dims, v \in {0, 200},
        a \in {0, 128, 255}, i \in BOOLEAN}

Contents(dims, fms) ==
    {c \in ImageFiles(dims, fms) : c.alpha \in Alphas(c.mode)} \cup {Garbage}

SmallDims == {100, 400, 600} \X {100, 600}

Dims ==
    (1 .. MaxSmallDim)
    \cup {k * 200 + d : k \in 1 .. MaxDimSteps, d \in {-1, 0, 1}}
    \cup {300}

Upload(c, size, fault, filename) ==
    [kind |-> c.kind, format |-> c.format, mode |-> c.mode,
     width |-> c.width, height |-> c.height, value |-> c.value,
     alpha |-> c.alpha, intact |-> c.intact,
     size |-> size, fault |-> fault, filename |-> filename]

\* every kind of upload, with a few pixel sizes
Uploads ==
    {Upload(c, s, f, n) : c \in Contents(SmallDims, FormatModes),
                          s \in Sizes, f \in Faults, n \in Filenames}

\* intact opaque and transparent PNGs of every pixel size of Dims
SizedUploads ==
    {Upload(c, 1024, "none", "leaf.png") :
        c \in {i \in ImageFiles(Dims \X Dims,
                                {<<"PNG", "RGB">>, <<"PNG", "RGBA">>}) :
                 i.intact /\ i.value = 200 /\ i.alpha = 255}}

\* the uploads of the concurrent requests
ConcUploads ==
    {u \in Uploads :
        /\ u.size \in {1024, 2 * MAX_FILE_SIZE}
        /\ u.fault = "none"
        /\ u.filename = "leaf.jpg"
        /\ u.kind = "image" =>
              /\ <<u.width, u.height>> = <<600, 100>>
              /\ u.value = 200
              /\ u.intact \/ u.format = "PNG"
              /\ <<u.format, u.mode, u.alpha>> \in
                    {<<"PNG", "RGBA", 128>>, <<"GIF", "P", 255>>}}

InitWith(reqs, ups) ==
    /\ upload \in [reqs -> ups]
    /\ pc = [r \in reqs |-> "size"]
    /\ image = [r \in reqs |-> NoImage]
    /\ trace = [r \in reqs |-> <<>>]
    /\ response = [r \in reqs |-> NoResponse]
    /\ health = NoHealth

Init == InitWith({1}, Uploads \cup SizedUploads)

InitConc == InitWith(1 .. NumConc, ConcUploads)

Next ==
    \/ \E r \in Requests : SizeCheck(r)
    \/ \E r \in Requests : Decode(r)
    \/ \E r \in Requests : FormatCheck(r)
    \/ \E r \in Requests : Normalize(r)
    \/ \E r \in Requests : Classify(r)
    \/ HealthCheck

Spec == Init /\ [][Next]_vars

SpecConc == InitConc /\ [][Next]_vars

----------------------------------------------------------------------------
(* Properties *)

Done(r) == pc[r] = "done"

Failed(r) == Done(r) /\ response[r].status # 200

Succeeded(r) == Done(r) /\ response[r].status = 200

Ran(r, step) == \E i \in 1 .. Len(trace[r]) : trace[r][i] = step

\* optimize_image has returned for request r
Normalized(r) == Ran(r, "normalize") /\ (pc[r] = "classify" \/ Ran(r, "classify"))

FailedWith(r, status, detail) ==
    /\ Failed(r)
    /\ response[r].status = status
    /\ response[r].detail = detail

\* C1: an upload that was read and is longer than 5 * 1024 * 1024 bytes is
\* answered 400 PayloadTooLarge and its decode step never runs; an upload of
\* exactly 5 * 1024 * 1024 bytes passes the size check and is decoded.
C1_SizeLimit ==
    \A r \in Requests :
        upload[r].fault # "size" =>
            /\ upload[r].size > 5 * 1024 * 1024 =>
                  /\ ~Ran(r, "decode")
                  /\ Ran(r, "size") => FailedWith(r, 400, "PayloadTooLarge")
            /\ (upload[r].size = 5 * 1024 * 1024 /\ Done(r)) =>
                  /\ Ran(r, "decode")
                  /\ response[r].detail # "PayloadTooLarge"

C1_Witness ==
    \E r \in Requests :
        /\ upload[r].size = 5 * 1024 * 1024 + 1
        /\ upload[r].kind = "image"
        /\ FailedWith(r, 400, "PayloadTooLarge")
        /\ trace[r] = <<"size">>

\* the errors a step can end the request with
StepErrors(step) ==
    CASE step = "size" -> {"PayloadTooLarge", "UnexpectedError"}
      [] step = "decode" -> {"DecodeError"}
      [] step = "format" -> {"UnsupportedFormat"}
      [] step = "normalize" -> {"NormalizationError"}
      [] step = "classify" -> {"ClassificationError"}
      [] OTHER -> {}

C2_Outcome(r) ==
    /\ Len(trace[r]) <= 5
    /\ trace[r] = SubSeq(<<"size", "decode", "format", "normalize", "classify">>,
                         1, Len(trace[r]))
    /\ ~Done(r) => response[r] = NoResponse
    /\ Done(r) =>
          /\ trace[r] # <<>>
          /\ \/ /\ response[r].status = 200
                /\ Len(trace[r]) = 5
                /\ response[r].detail = "result"
                /\ response[r].variety # <<>>
                /\ response[r].grade # <<>>
                /\ response[r].confidence > 0
             \/ /\ response[r].status \in {400, 500}
                /\ response[r].detail \in StepErrors(trace[r][Len(trace[r])])
                /\ response[r].variety = <<>>
                /\ response[r].grade = <<>>

C2_Final(r) ==
    Done(r) => /\ pc'[r] = "done"
               /\ trace'[r] = trace[r]
               /\ response'[r] = response[r]

\* C2: the steps a request has run are always an initial part of size check,
\* decode, format check, normalize, classify, each run once; a request still
\* running has no response; a finished request has either a complete result
\* after all five steps or the error of the last step it ran, and once
\* finished neither its steps nor its response change.
C2_OrderedSingleOutcome ==
    /\ [](\A r \in Requests : C2_Outcome(r))
    /\ [][\A r \in Requests : C2_Final(r)]_vars

C2_Witness ==
    \E r \in Requests :
        /\ trace[r] = <<"size", "decode", "format">>
        /\ FailedWith(r, 400, "UnsupportedFormat")

\* C3: the status of a failed request follows from the step that failed: a
\* too large file, a failed decode and a refused format give 400 with their
\* own detail, never rewrapped; a fault of normalization or classification
\* and an exception outside the inner handlers give 500.
C3_StatusByStep ==
    \A r \in Requests :
        Failed(r) =>
            LET last == trace[r][Len(trace[r])]
                resp == <<response[r].status, response[r].detail>>
            IN  /\ last = "size" =>
                      resp = IF upload[r].fault = "size"
                             THEN <<500, "UnexpectedError">>
                             ELSE <<400, "PayloadTooLarge">>
                /\ last = "decode" => resp = <<400, "DecodeError">>
                /\ last = "format" => resp = <<400, "UnsupportedFormat">>
                /\ last = "normalize" => resp = <<500, "NormalizationError">>
                /\ last = "classify" => resp = <<500, "ClassificationError">>

C3_Witness ==
    \E r \in Requests :
        /\ upload[r].kind = "garbage"
        /\ trace[r] = <<"size", "decode">>
        /\ FailedWith(r, 400, "DecodeError")

\* bytes that are not a valid JPEG or PNG stream: no image header at all, or
\* a JPEG or PNG header followed by pixel data that is cut off or corrupt
InvalidBytes(u) ==
    \/ u.kind = "garbage"
    \/ u.format \in {"JPEG", "PNG"} /\ ~u.intact

\* C4: an upload of at most 5 MiB whose bytes are not a valid image is
\* answered 400 DecodeError and reaches neither normalization nor
\* classification.
C4_InvalidBytesRejected ==
    \A r \in Requests :
        (/\ upload[r].fault = "none"
         /\ upload[r].size <= 5 * 1024 * 1024
         /\ InvalidBytes(upload[r])) =>
            /\ ~Ran(r, "normalize")
            /\ ~Ran(r, "classify")
            /\ Done(r) => FailedWith(r, 400, "DecodeError")

\* C5: an upload that decodes to a format other than JPEG and PNG is answered
\* 400 UnsupportedFormat, and normalization and classification only run on
\* JPEG and PNG images.
C5_FormatAllowList ==
    \A r \in Requests :
        /\ (Done(r) /\ Ran(r, "format")
              /\ image[r].format \notin {"JPEG", "PNG"}) =>
              /\ FailedWith(r, 400, "UnsupportedFormat")
              /\ trace[r] = <<"size", "decode", "format">>
        /\ (Ran(r, "normalize") \/ Ran(r, "classify")) =>
              image[r].format \in {"JPEG", "PNG"}

C5_Witness ==
    \E r \in Requests :
        /\ image[r].format = "GIF"
        /\ image[r].intact
        /\ FailedWith(r, 400, "UnsupportedFormat")

\* C6: a normalized image is at most 400 x 400; an image that was at most
\* 400 x 400 keeps its size; a larger one is scaled down so that its longer
\* side is 400 and its shorter side is the proportional length rounded down
\* or up (at least 1), never longer than before; 600 x 300 becomes 400 x 200.
C6_Dimensions ==
    \A r \in Requests :
        Normalized(r) =>
            LET w == upload[r].width
                h == upload[r].height
                nw == image[r].width
                nh == image[r].height
            IN  /\ nw >= 1 /\ nh >= 1
                /\ nw <= 400 /\ nh <= 400
                /\ nw <= w /\ nh <= h
                /\ (w <= 400 /\ h <= 400) => <<nw, nh>> = <<w, h>>
                /\ (w > 400 \/ h > 400) =>
                      IF w >= h
                      THEN /\ nw = 400
                           /\ nh = 1 \/ Abs(nh * w - 400 * h) < w
                      ELSE /\ nh = 400
                           /\ nw = 1 \/ Abs(nw * h - 400 * w) < h
                /\ <<w, h>> = <<600, 300>> => <<nw, nh>> = <<400, 200>>

C6_Witness ==
    \E r \in Requests :
        /\ Normalized(r)
        /\ <<upload[r].width, upload[r].height>> = <<600, 300>>
        /\ <<image[r].width, image[r].height>> = <<400, 200>>

\* C7 as claimed: every normalized image has a 3-channel mode without alpha.
C7_ThreeChannels ==
    \A r \in Requests : Normalized(r) => image[r].mode = "RGB"

\* C7 as amended: a normalized image has no alpha channel; an RGBA or LA
\* image has been composited onto white at its resized dimensions and is RGB,
\* a fully transparent pixel having become white; an image of any other mode
\* keeps its mode.
C7_NoAlpha ==
    \A r \in Requests :
        Normalized(r) =>
            /\ image[r].mode \notin {"RGBA", "LA"}
            /\ image[r].alpha = 255
            /\ upload[r].mode \in {"RGBA", "LA"} =>
                  /\ image[r].mode = "RGB"
                  /\ upload[r].alpha = 0 => image[r].value = 255
                  /\ upload[r].alpha = 255 => image[r].value = upload[r].value
            /\ upload[r].mode \notin {"RGBA", "LA"} =>
                  /\ image[r].mode = upload[r].mode
                  /\ image[r].value = upload[r].value

C7_Witness ==
    \E r \in Requests :
        /\ Normalized(r)
        /\ upload[r].mode = "LA"
        /\ upload[r].alpha = 0
        /\ upload[r].value = 200
        /\ upload[r].width > 400
        /\ image[r].mode = "RGB"
        /\ image[r].value = 255

\* "Yabukita", "Saemidori", "Tsuyuhikari"
RomanizedVarieties ==
    {<<89, 97, 98, 117, 107, 105, 116, 97>>,
     <<83, 97, 101, 109, 105, 100, 111, 114, 105>>,
     <<84, 115, 117, 121, 117, 104, 105, 107, 97, 114, 105>>}

\* "Premium", "Medium", "Low"
EnglishGrades ==
    {<<80, 114, 101, 109, 105, 117, 109>>, <<77, 101, 100, 105, 117, 109>>,
     <<76, 111, 119>>}

\* C8 as claimed: the variety of a result is one of "Yabukita", "Saemidori",
\* "Tsuyuhikari" and its grade one of "Premium", "Medium", "Low".
C8_EnglishLiterals ==
    \A r \in Requests :
        Succeeded(r) => /\ response[r].variety \in RomanizedVarieties
                        /\ response[r].grade \in EnglishGrades

\* C8 as amended: the variety of a result is one of the three hiragana names
\* U+3084 U+3076 U+304D U+305F, U+3055 U+3048 U+307F U+3069 U+308A,
\* U+3064 U+3086 U+3072 U+304B U+308A and its grade one of the three kanji
\* words U+512A U+826F, U+4E2D U+7B49, U+4F4E U+7D1A.
C8_JapaneseLiterals ==
    \A r \in Requests :
        Succeeded(r) =>
            /\ response[r].variety \in
                  {<<12420, 12406, 12365, 12383>>,
                   <<12373, 12360, 12415, 12393, 12426>>,
                   <<12388, 12422, 12402, 12363, 12426>>}
            /\ response[r].grade \in
                  {<<20778, 33391>>, <<20013, 31561>>, <<20302, 32026>>}

C8_Witness ==
    \E r \in Requests :
        /\ Succeeded(r)
        /\ response[r].variety = <<12420, 12406, 12365, 12383>>
        /\ response[r].grade = <<20302, 32026>>

\* C9: the confidence of a result lies between 0.7 and 1.0 and is a multiple
\* of 0.001.
C9_Confidence ==
    \A r \in Requests :
        Succeeded(r) =>
            /\ 10 * response[r].confidence >= 7 * Pow10(DrawDigits)
            /\ response[r].confidence <= Pow10(DrawDigits)
            /\ 1000 * response[r].confidence % Pow10(DrawDigits) = 0

C9_Witness ==
    \E r \in Requests :
        /\ Succeeded(r)
        /\ 1000 * response[r].confidence = 701 * Pow10(DrawDigits)

\* the answer analyze gives an upload when it is the only request
Alone(u) ==
    IF u.fault = "size" THEN "UnexpectedError"
    ELSE IF u.size > 5 * 1024 * 1024 THEN "PayloadTooLarge"
    ELSE IF u.fault = "decode" \/ u.kind # "image" THEN "DecodeError"
    ELSE IF u.format \notin {"JPEG", "PNG"} THEN "UnsupportedFormat"
    ELSE IF \/ u.fault = "normalize"
            \/ (~u.intact /\ (u.width > 400 \/ u.height > 400
                              \/ u.mode \in {"RGBA", "LA"}))
         THEN "NormalizationError"
    ELSE IF u.fault = "classify" THEN "ClassificationError"
    ELSE "result"

C10_OwnBytes(r) ==
    /\ Done(r) => response[r].detail = Alone(upload[r])
    /\ (Ran(r, "format") /\ ~Normalized(r)) => image[r] = Image_open(upload[r])
    /\ Normalized(r) =>
          image[r] \in {optimize_image(Image_open(upload[r]), up) : up \in BOOLEAN}

C10_Frame ==
    /\ upload' = upload
    /\ \A r \in Requests :
          pc'[r] = pc[r] => /\ image'[r] = image[r]
                            /\ trace'[r] = trace[r]
                            /\ response'[r] = response[r]
    /\ \A r1, r2 \in Requests :
          r1 # r2 => pc'[r1] = pc[r1] \/ pc'[r2] = pc[r2]

TypeOK ==
    /\ \A r \in Requests :
          pc[r] \in {"size", "decode", "format", "normalize", "classify", "done"}
    /\ health \in {NoHealth, HealthResponse}

====
